---- MODULE Spec2Model ----
(***************************************************************************)
(* Clustering and duplicate-resolution engine of the album maker:          *)
(* the image list held in memory, the SQLite store behind Database, the    *)
(* exact-match resolver (duplicate_detection.py), the similarity-graph     *)
(* resolver (graph_duplicates.py) and the single-linkage clustering        *)
(* (clustering.py).                                                        *)
(*                                                                         *)
(* Numbers.  Quality scores are integers 0..MaxScore (0 is "not scored").  *)
(* A hash is the integer its hex string denotes, EmptyHash for "".         *)
(* Latitude and longitude are whole kilometres of arc (one degree is       *)
(* 111.19 km); the images of one clustering run lie on one meridian, so    *)
(* that the haversine distance of two positions is the absolute            *)
(* difference of the latitudes.  A timestamp is a number of hours.         *)
(* Combined distances and thresholds are carried multiplied by DistScale.  *)
(***************************************************************************)
EXTENDS Integers, Sequences, FiniteSets, TLC

\* Bounds of the model.
MaxImages == 3
MaxScore == 2
HashBits == 2
MaxThreshold == 1
MaxRuns == 2
MaxKm == 12
MaxHours == 6
MaxThresholdUnits == 3
MaxClusterLimit == 2
MaxDistanceKm == 6
MaxTimeHours == 12

\* Optional[...] = None, and the empty hash string.
None == -1
EmptyHash == -1

\* calculate_blur_scores falls back to the neutral score 0.5.
NeutralScore == 1
\* calculate_hash_distance answers 999 when a hash cannot be decoded.
InvalidDistance == 999

Scores == 0..MaxScore
RECURSIVE Pow2(_)
Pow2(n) == IF n = 0 THEN 1 ELSE 2 * Pow2(n - 1)
ValidHashes == 0..(Pow2(HashBits) - 1)
Hashes == {EmptyHash} \cup ValidHashes
Thresholds == 0..MaxThreshold

VARIABLES
    images,     \* the in-memory list of Image records handed from stage to stage
    files,      \* the file behind each image: what the scorer and the hasher read
    dbImages,   \* table images: row id -> row
    dbGroups,   \* table duplicate_groups: row id -> row
    dbClusters, \* table clusters: row id -> row
    pc,         \* position in process_images
    runs,       \* the resolver runs performed so far, in order
    run,        \* what the last resolver run was
    groups,     \* the duplicate groups of the last resolver run, as positions in images
    savedAs,    \* row ids under which the store saved the groups of the last run
    graph,      \* the similarity graph of the last graph-resolver run
    kept,       \* filtered_images of the last exact-match run
    stats,      \* statistics returned by the last resolver run
    hc,         \* state of hierarchical_cluster_images / cluster_images
    out         \* the last call of a function applied on its own, with its result

vars == <<images, files, dbImages, dbGroups, dbClusters, pc, runs, run, groups, savedAs,
          graph, kept, stats, hc, out>>

resolverVars == <<runs, run, groups, savedAs, graph, kept, stats>>

----------------------------------------------------------------------------
\* models.py

Image(lat, lon, ts) ==
    [id |-> None, latitude |-> lat, longitude |-> lon, timestamp |-> ts, blur_score |-> 0,
     hash |-> EmptyHash, cluster_id |-> None, is_duplicate |-> FALSE,
     duplicate_group |-> None]

DuplicateGroup(id, best_image_id, image_ids) ==
    [id |-> id, best_image_id |-> best_image_id, image_ids |-> image_ids]

Positions(imgs) == 1..Len(imgs)

Max2(a, b) == IF a >= b THEN a ELSE b
Min2(a, b) == IF a <= b THEN a ELSE b

\* The elements of the set S of positions as an ascending sequence.
Ascending(S) ==
    LET n == IF S = {} THEN 0 ELSE CHOOSE m \in S : \A x \in S : x <= m
    IN  SelectSeq([i \in 1..n |-> i], LAMBDA i : i \in S)

Range(s) == {s[i] : i \in DOMAIN s}

----------------------------------------------------------------------------
\* database.py

\* str(list) of a list of ids, as Python prints it: "[1, 2]".
PyStr(ids) ==
    <<"[">> \o
    [k \in 1..(IF Len(ids) = 0 THEN 0 ELSE 2 * Len(ids) - 1) |->
        IF k % 2 = 1 THEN ToString(ids[(k + 1) \div 2]) ELSE ", "] \o
    <<"]">>

\* eval(group.image_ids): the list a stored image_ids text denotes.
PyEval(text) ==
    LET inner == SubSeq(text, 2, Len(text) - 1)
        items == SelectSeq(inner, LAMBDA t : t # ", ")
    IN  [k \in 1..Len(items) |->
            CHOOSE n \in 0..(MaxImages + 1) : ToString(n) = items[k]]

\* Database.add_image: INSERT, the row id is lastrowid.
add_image(rows, img) == Append(rows, [img EXCEPT !.id = Len(rows) + 1])

\* Database.update_image_blur_score: UPDATE ... WHERE id = ?
update_image_blur_score(rows, image_id, blur_score) ==
    [r \in DOMAIN rows |->
        IF r = image_id THEN [rows[r] EXCEPT !.blur_score = blur_score] ELSE rows[r]]

\* Database.update_image_cluster: UPDATE ... WHERE id = ?
update_image_cluster(rows, image_id, cluster_id) ==
    [r \in DOMAIN rows |->
        IF r = image_id THEN [rows[r] EXCEPT !.cluster_id = cluster_id] ELSE rows[r]]

\* An update that also clears the flag of every other row.
mark_as_duplicate_only(rows, image_id, duplicate_group) ==
    [r \in DOMAIN rows |->
        IF r = image_id
        THEN [rows[r] EXCEPT !.is_duplicate = TRUE, !.duplicate_group = duplicate_group]
        ELSE [rows[r] EXCEPT !.is_duplicate = FALSE]]

\* Database.mark_as_duplicate: UPDATE ... SET is_duplicate = TRUE, duplicate_group = ?
mark_as_duplicate(rows, image_id, duplicate_group) ==
    [r \in DOMAIN rows |->
        IF r = image_id
        THEN [rows[r] EXCEPT !.is_duplicate = TRUE, !.duplicate_group = duplicate_group]
        ELSE rows[r]]

\* A save that writes the id of the group where the representative belongs.
save_duplicate_group_by_group_id(rows, group) ==
    Append(rows, [id |-> Len(rows) + 1, best_image_id |-> group.id,
                  image_ids |-> group.image_ids])

\* Database.save_duplicate_group: INSERT of best_image_id and image_ids only;
\* the id column is AUTOINCREMENT and group.id is not written.
save_duplicate_group(rows, group) ==
    Append(rows, [id |-> Len(rows) + 1, best_image_id |-> group.best_image_id,
                  image_ids |-> group.image_ids])

----------------------------------------------------------------------------
\* duplicate_detection.py

\* A sort that is not stable: an image goes before those of equal score.
InsertByBlurUnstable(sorted, p, imgs) ==
    LET k == Cardinality({i \in DOMAIN sorted :
                             imgs[sorted[i]].blur_score > imgs[p].blur_score})
    IN  SubSeq(sorted, 1, k) \o <<p>> \o SubSeq(sorted, k + 1, Len(sorted))

\* sorted(..., key=blur_score, reverse=True): a stable sort, equal scores keep
\* their order.  ps is a sequence of positions in imgs.
InsertByBlur(sorted, p, imgs) ==
    LET k == Cardinality({i \in DOMAIN sorted :
                             imgs[sorted[i]].blur_score >= imgs[p].blur_score})
    IN  SubSeq(sorted, 1, k) \o <<p>> \o SubSeq(sorted, k + 1, Len(sorted))

RECURSIVE SortByBlur(_, _)
SortByBlur(ps, imgs) ==
    IF ps = <<>> THEN <<>>
    ELSE InsertByBlur(SortByBlur(SubSeq(ps, 1, Len(ps) - 1), imgs), ps[Len(ps)], imgs)

\* hash_groups: one list per non-empty hash, keyed in order of first occurrence.
HashGroupOf(imgs, p) ==
    Ascending({q \in Positions(imgs) : imgs[q].hash = imgs[p].hash})

\* A grouping that also keys on the empty hash.
hash_groups_with_empty(imgs) ==
    LET firsts == {p \in Positions(imgs) :
                      \A q \in 1..(p - 1) : imgs[q].hash # imgs[p].hash}
        keys == Ascending(firsts)
    IN  [k \in 1..Len(keys) |-> HashGroupOf(imgs, keys[k])]

hash_groups(imgs) ==
    LET firsts == {p \in Positions(imgs) :
                      /\ imgs[p].hash # EmptyHash
                      /\ \A q \in 1..(p - 1) : imgs[q].hash # imgs[p].hash}
        keys == Ascending(firsts)
    IN  [k \in 1..Len(keys) |-> HashGroupOf(imgs, keys[k])]

\* A selection that also keeps the hashes only one image has.
greedy_select_keeping_singles(imgs) ==
    LET hg == hash_groups(imgs)
    IN  [k \in 1..Len(hg) |-> SortByBlur(hg[k], imgs)]

\* greedy_select_best_images: the groups of two or more, each sorted by score;
\* the k-th group of the result has key k.
greedy_select_best_images(imgs) ==
    LET hg == hash_groups(imgs)
        dup == SelectSeq(hg, LAMBDA g : Len(g) > 1)
    IN  [k \in 1..Len(dup) |-> SortByBlur(dup[k], imgs)]

\* img.id or 0
OrZero(id) == IF id = None THEN 0 ELSE id

RECURSIVE MarkAll(_, _, _)
MarkAll(rows, ids, gid) ==
    IF ids = <<>> THEN rows
    ELSE MarkAll(mark_as_duplicate(rows, OrZero(Head(ids)), gid), Tail(ids), gid)

\* One iteration of the loop of filter_blurred_duplicates over duplicate_groups:
\* st holds the image list and the two tables, group_images is a group of
\* positions, duplicate_group_id the local counter.
MarkExactGroup(st, group_images, duplicate_group_id) ==
    LET sorted_group == SortByBlur(group_images, st.images)
        best_image == sorted_group[1]
        others == Tail(sorted_group)
        duplicate_image_ids == [k \in 1..Len(others) |-> st.images[others[k]].id]
        imgs2 == [p \in DOMAIN st.images |->
                    IF p \in Range(others)
                    THEN [st.images[p] EXCEPT !.is_duplicate = TRUE,
                                              !.duplicate_group = duplicate_group_id]
                    ELSE IF p = best_image
                    THEN [st.images[p] EXCEPT !.is_duplicate = FALSE,
                                              !.duplicate_group = duplicate_group_id]
                    ELSE st.images[p]]
        duplicate_group == DuplicateGroup(duplicate_group_id, st.images[best_image].id,
                                          PyStr(duplicate_image_ids))
        rows2 == save_duplicate_group(st.dbGroups, duplicate_group)
    IN  [images |-> imgs2,
         dbImages |-> MarkAll(st.dbImages, duplicate_image_ids, duplicate_group_id),
         dbGroups |-> rows2,
         savedAs |-> Append(st.savedAs, Len(rows2)),
         filtered |-> Append(st.filtered, best_image)]

RECURSIVE MarkExactGroups(_, _, _)
MarkExactGroups(st, gs, duplicate_group_id) ==
    IF gs = <<>> THEN st
    ELSE MarkExactGroups(MarkExactGroup(st, Head(gs), duplicate_group_id),
                         Tail(gs), duplicate_group_id + 1)

\* filter_blurred_duplicates after calculate_blur_scores: imgs already carry
\* the scores.  Gives the new image list, tables and filtered_images.
filter_blurred_duplicates(imgs, rowsI, rowsG) ==
    LET duplicate_groups == greedy_select_best_images(imgs)
        st == MarkExactGroups([images |-> imgs, dbImages |-> rowsI, dbGroups |-> rowsG,
                               savedAs |-> <<>>, filtered |-> <<>>],
                              duplicate_groups, 1)
        processed_hashes == {imgs[p].hash :
                                p \in UNION {Range(duplicate_groups[k]) :
                                                k \in DOMAIN duplicate_groups}}
        rest == SelectSeq([p \in DOMAIN imgs |-> p],
                          LAMBDA p : imgs[p].hash \notin processed_hashes)
    IN  [st EXCEPT !.filtered = st.filtered \o rest] @@
        [duplicate_groups |-> duplicate_groups]

RECURSIVE SaveBlurScores(_, _, _)
SaveBlurScores(rows, imgs, filtered) ==
    IF filtered = <<>> THEN rows
    ELSE LET img == imgs[Head(filtered)]
         IN  SaveBlurScores(IF ~img.is_duplicate
                            THEN update_image_blur_score(rows, OrZero(img.id), img.blur_score)
                            ELSE rows,
                            imgs, Tail(filtered))

\* The statistics of process_blur_filtering.
BlurStats(imgs, filtered) ==
    [original_images |-> Len(imgs),
     filtered_images |-> Len(filtered),
     duplicates_removed |-> Len(imgs) - Len(filtered),
     duplicate_groups |->
        Cardinality({k \in DOMAIN filtered : imgs[filtered[k]].duplicate_group # None})]

\* calculate_blur_scores: an image whose score is 0.0 is scored from its file:
\* detect_blur of the file, or the neutral score when the file cannot be read.
calculate_blur_scores(imgs, fs) ==
    [p \in DOMAIN imgs |->
        IF imgs[p].blur_score = 0
        THEN [imgs[p] EXCEPT !.blur_score =
                                IF fs[p].readable THEN fs[p].sharp ELSE NeutralScore]
        ELSE imgs[p]]

----------------------------------------------------------------------------
\* graph_duplicates.py

Bit(h, k) == (h \div Pow2(k)) % 2

\* imagehash.hex_to_hash: the bit vector a hash string denotes.
hex_to_hash(h) == [k \in 1..HashBits |-> Bit(h, HashBits - k)]

\* calculate_hash_distance: the Hamming distance of the decoded hashes, 999
\* when a hash cannot be decoded.
calculate_hash_distance(hash1, hash2) ==
    IF hash1 \notin ValidHashes \/ hash2 \notin ValidHashes THEN InvalidDistance
    ELSE LET h1 == hex_to_hash(hash1)
             h2 == hex_to_hash(hash2)
         IN  Cardinality({k \in 1..HashBits : h1[k] # h2[k]})

\* weight = 1.0 / (distance + 1), kept as numerator and denominator.
EdgeWeight(distance) == <<1, distance + 1>>

\* A comparison that leaves out a distance equal to the threshold.
SimilarEnoughStrict(distance, similarity_threshold) == distance < similarity_threshold

\* The comparison that admits an edge.
SimilarEnough(distance, similarity_threshold) == distance <= similarity_threshold

\* build_similarity_graph: one node per image id, in insertion order; image[id]
\* is the position of the image stored on the node; one edge per compared pair
\* that is similar enough.
build_similarity_graph(imgs, similarity_threshold) ==
    LET firsts == {p \in Positions(imgs) :
                      \A q \in 1..(p - 1) : imgs[q].id # imgs[p].id}
        order == Ascending(firsts)
        ids == {imgs[p].id : p \in Positions(imgs)}
        pairs == {<<i, j>> \in Positions(imgs) \X Positions(imgs) :
                     /\ i < j
                     /\ imgs[i].hash # EmptyHash
                     /\ imgs[j].hash # EmptyHash
                     /\ SimilarEnough(calculate_hash_distance(imgs[i].hash, imgs[j].hash),
                                      similarity_threshold)}
    IN  [nodes |-> [k \in 1..Len(order) |-> imgs[order[k]].id],
         image |-> [n \in ids |->
                      CHOOSE p \in Positions(imgs) :
                          /\ imgs[p].id = n
                          /\ \A q \in Positions(imgs) : imgs[q].id = n => q <= p],
         edges |-> {[u |-> imgs[pr[1]].id, v |-> imgs[pr[2]].id,
                     distance |-> calculate_hash_distance(imgs[pr[1]].hash, imgs[pr[2]].hash),
                     weight |-> EdgeWeight(calculate_hash_distance(imgs[pr[1]].hash,
                                                                   imgs[pr[2]].hash))] :
                    pr \in pairs}]

Neighbors(G, n) ==
    {e.v : e \in {x \in G.edges : x.u = n}} \cup {e.u : e \in {x \in G.edges : x.v = n}}

\* A search that stops at the direct neighbours of the source.
PlainBfsOneStep(G, seen, frontier) ==
    seen \cup UNION {Neighbors(G, n) : n \in frontier}

\* networkx _plain_bfs: the nodes reachable from the frontier.
RECURSIVE PlainBfs(_, _, _)
PlainBfs(G, seen, frontier) ==
    IF frontier = {} THEN seen
    ELSE LET next == (UNION {Neighbors(G, n) : n \in frontier}) \ seen
         IN  PlainBfs(G, seen \cup next, next)

\* networkx connected_components: in node order, the component of each node
\* not seen yet.
RECURSIVE ComponentsFrom(_, _, _)
ComponentsFrom(G, k, seen) ==
    IF k > Len(G.nodes) THEN <<>>
    ELSE IF G.nodes[k] \in seen THEN ComponentsFrom(G, k + 1, seen)
    ELSE LET c == PlainBfs(G, {G.nodes[k]}, {G.nodes[k]})
         IN  <<c>> \o ComponentsFrom(G, k + 1, seen \cup c)

connected_components(G) == ComponentsFrom(G, 1, {})

\* A test that lets a single node count as a group.
IsAnyComponent(component) == Cardinality(component) >= 1

\* The size a component needs to count as a duplicate group.
IsDuplicateComponent(component) == Cardinality(component) >= 2

\* A grouping that keeps the components in enumeration order, unsorted.
find_connected_groups_unsorted(G, imgs, iteration) ==
    LET components == SelectSeq(connected_components(G), IsDuplicateComponent)
    IN  [k \in 1..Len(components) |->
            LET enumerated == SelectSeq(iteration, LAMBDA n : n \in components[k])
            IN  [i \in 1..Len(enumerated) |-> G.image[enumerated[i]]]]

\* find_connected_duplicate_groups.  A component is a Python set of ids; the
\* order in which the set is enumerated is iteration, a list of all node ids.
find_connected_duplicate_groups(G, imgs, iteration) ==
    LET components == SelectSeq(connected_components(G), IsDuplicateComponent)
    IN  [k \in 1..Len(components) |->
            LET enumerated == SelectSeq(iteration, LAMBDA n : n \in components[k])
                group_images == [i \in 1..Len(enumerated) |-> G.image[enumerated[i]]]
            IN  SortByBlur(group_images, imgs)]

\* One iteration of the saving loop of detect_graph_based_duplicates.
MarkGraphGroup(st, group_images, group_id) ==
    LET best_image == group_images[1]
        others == Tail(group_images)
        duplicate_ids == [k \in 1..Len(others) |-> st.images[others[k]].id]
        imgs2 == [p \in DOMAIN st.images |->
                    IF p \in Range(others)
                    THEN [st.images[p] EXCEPT !.is_duplicate = TRUE,
                                              !.duplicate_group = group_id]
                    ELSE IF p = best_image
                    THEN [st.images[p] EXCEPT !.is_duplicate = FALSE,
                                              !.duplicate_group = group_id]
                    ELSE st.images[p]]
        dup_group == DuplicateGroup(group_id, st.images[best_image].id, PyStr(duplicate_ids))
        rows2 == save_duplicate_group(st.dbGroups, dup_group)
    IN  [images |-> imgs2,
         dbImages |-> MarkAll(st.dbImages, duplicate_ids, group_id),
         dbGroups |-> rows2,
         savedAs |-> Append(st.savedAs, Len(rows2)),
         duplicates_marked |-> st.duplicates_marked + Len(others)]

RECURSIVE MarkGraphGroups(_, _, _)
MarkGraphGroups(st, gs, group_id) ==
    IF gs = <<>> THEN st
    ELSE MarkGraphGroups(MarkGraphGroup(st, Head(gs), group_id), Tail(gs), group_id + 1)

\* Step 1 of detect_graph_based_duplicates: an image without a hash gets the
\* average hash of its file, or "" again when the file cannot be read.
EnsureHashes(imgs, fs) ==
    [p \in DOMAIN imgs |->
        IF imgs[p].hash = EmptyHash
        THEN [imgs[p] EXCEPT !.hash = IF fs[p].readable THEN fs[p].ahash ELSE EmptyHash]
        ELSE imgs[p]]

\* Statistics that take one image off per group instead of the marked ones.
GraphStatsPerGroup(imgs, G, duplicate_groups, duplicates_marked) ==
    [total_images |-> Len(imgs),
     graph_nodes |-> Len(G.nodes),
     graph_edges |-> Cardinality({{e.u, e.v} : e \in G.edges}),
     duplicate_groups |-> Len(duplicate_groups),
     duplicates_marked |-> Len(duplicate_groups),
     images_kept |-> Len(imgs) - Len(duplicate_groups)]

GraphStats(imgs, G, duplicate_groups, duplicates_marked) ==
    [total_images |-> Len(imgs),
     graph_nodes |-> Len(G.nodes),
     graph_edges |-> Cardinality({{e.u, e.v} : e \in G.edges}),
     duplicate_groups |-> Len(duplicate_groups),
     duplicates_marked |-> duplicates_marked,
     images_kept |-> Len(imgs) - duplicates_marked]

----------------------------------------------------------------------------
\* app.py, process_images

NoRun == [kind |-> "none", threshold |-> 0]
EmptyGraph == [nodes |-> <<>>, image |-> <<>>, edges |-> {}]
NoStats == [total |-> 0]
NoCall == [call |-> "none"]
Idle == [pc |-> "idle", mode |-> "none", threshold |-> 0, max_clusters |-> None,
         clusters |-> <<>>, result |-> <<>>]

\* A file is unreadable, or has the sharpness detect_blur computes and the
\* average hash calculate_perceptual_hash computes.
Unreadable == [readable |-> FALSE, sharp |-> 0, ahash |-> EmptyHash]
Files == {Unreadable} \cup [readable : {TRUE}, sharp : Scores, ahash : ValidHashes]

\* The images as loaded: file, GPS and time only.  GpsValues is a set of pairs
\* <<latitude, longitude>>.
InitWith(GpsValues, TimeValues, FileValues) ==
    /\ \E n \in 0..MaxImages :
        \E g \in [1..n -> GpsValues], t \in [1..n -> TimeValues] :
            images = [p \in 1..n |-> Image(g[p][1], g[p][2], t[p])]
    /\ files \in [DOMAIN images -> FileValues]
    /\ dbImages = <<>>
    /\ dbGroups = <<>>
    /\ dbClusters = <<>>
    /\ pc = "loaded"
    /\ runs = <<>>
    /\ run = NoRun
    /\ groups = <<>>
    /\ savedAs = <<>>
    /\ graph = EmptyGraph
    /\ kept = <<>>
    /\ stats = NoStats
    /\ hc = Idle
    /\ out = NoCall

Init == InitWith({<<None, None>>}, {None}, Files)

\* Step 1: for img in images: img.id = db.add_image(img)
RECURSIVE SaveAll(_, _, _)
SaveAll(imgs, rows, p) ==
    IF p > Len(imgs) THEN [images |-> imgs, dbImages |-> rows]
    ELSE LET rows2 == add_image(rows, imgs[p])
         IN  SaveAll([imgs EXCEPT ![p].id = Len(rows2)], rows2, p + 1)

SaveImages ==
    /\ pc = "loaded"
    /\ \E st \in {SaveAll(images, dbImages, 1)} :
           /\ images' = st.images
           /\ dbImages' = st.dbImages
    /\ pc' = "saved"
    /\ UNCHANGED <<files, dbGroups, dbClusters, resolverVars, hc, out>>

\* Step 3, after the clustering of step 2 or, when clustering is not enabled,
\* after step 1.  Per image: the score and the hash are computed from the file and the
\* score is written to the store; when the file cannot be read the exception is
\* reported and the image is left as it is.
RECURSIVE BackfillAll(_, _, _, _)
BackfillAll(imgs, rows, fs, p) ==
    IF p > Len(imgs) THEN [images |-> imgs, dbImages |-> rows]
    ELSE IF ~fs[p].readable THEN BackfillAll(imgs, rows, fs, p + 1)
    ELSE BackfillAll([imgs EXCEPT ![p].blur_score = fs[p].sharp, ![p].hash = fs[p].ahash],
                     update_image_blur_score(rows, imgs[p].id, fs[p].sharp), fs, p + 1)

Backfill ==
    /\ pc \in {"saved", "clustered"}
    /\ \E st \in {BackfillAll(images, dbImages, files, 1)} :
           /\ images' = st.images
           /\ dbImages' = st.dbImages
    /\ pc' = "ready"
    /\ UNCHANGED <<files, dbGroups, dbClusters, resolverVars, hc, out>>

\* Step 4: process_blur_filtering(images, db)
RunExact ==
    /\ pc = "ready"
    /\ Len(runs) < MaxRuns
    /\ \E st \in {filter_blurred_duplicates(calculate_blur_scores(images, files),
                                            dbImages, dbGroups)} :
           /\ images' = st.images
           /\ dbImages' = SaveBlurScores(st.dbImages, st.images, st.filtered)
           /\ dbGroups' = st.dbGroups
           /\ groups' = st.duplicate_groups
           /\ savedAs' = st.savedAs
           /\ kept' = st.filtered
           /\ stats' = BlurStats(st.images, st.filtered)
    /\ run' = [kind |-> "exact", threshold |-> 0]
    /\ runs' = Append(runs, "exact")
    /\ UNCHANGED <<files, dbClusters, pc, graph, hc, out>>

Enumerations(S) ==
    {f \in [1..Cardinality(S) -> S] : \A i, j \in DOMAIN f : f[i] = f[j] => i = j}

\* Step 5: detect_graph_based_duplicates(images, db, similarity_threshold)
RunGraph ==
    /\ pc = "ready"
    /\ Len(runs) < MaxRuns
    /\ \E similarity_threshold \in Thresholds,
          iteration \in Enumerations({images[p].id : p \in Positions(images)}) :
        \E imgs \in {EnsureHashes(images, files)} :
        \E G \in {build_similarity_graph(imgs, similarity_threshold)} :
        \E duplicate_groups \in {find_connected_duplicate_groups(G, imgs, iteration)} :
        \E st \in {MarkGraphGroups([images |-> imgs, dbImages |-> dbImages,
                                    dbGroups |-> dbGroups, savedAs |-> <<>>,
                                    duplicates_marked |-> 0],
                                   duplicate_groups, 1)} :
            /\ images' = st.images
            /\ dbImages' = st.dbImages
            /\ dbGroups' = st.dbGroups
            /\ groups' = duplicate_groups
            /\ savedAs' = st.savedAs
            /\ graph' = G
            /\ stats' = GraphStats(imgs, G, duplicate_groups, st.duplicates_marked)
            /\ run' = [kind |-> "graph", threshold |-> similarity_threshold]
    /\ runs' = Append(runs, "graph")
    /\ UNCHANGED <<files, dbClusters, pc, kept, hc, out>>

Next == SaveImages \/ Backfill \/ RunExact \/ RunGraph

Spec == Init /\ [][Next]_vars

----------------------------------------------------------------------------
\* Properties of the duplicate resolvers

ImageWithId(id) == images[CHOOSE p \in Positions(images) : images[p].id = id]

\* The member list of a stored duplicate group, read back from its text.
StoredMembers(g) == Range(PyEval(dbGroups[g].image_ids))

Members(k) == Range(groups[k])
Representative(k) == groups[k][1]

\* The Hamming distance of two hashes: the number of bits set in their XOR.
RECURSIVE Hamming(_, _)
Hamming(a, b) ==
    IF a = 0 /\ b = 0 THEN 0
    ELSE (IF a % 2 # b % 2 THEN 1 ELSE 0) + Hamming(a \div 2, b \div 2)

\* Two images are linked when both have a hash and the hashes are within the
\* threshold of the last graph run.
Linked(p, q) ==
    /\ p # q
    /\ images[p].hash # EmptyHash
    /\ images[q].hash # EmptyHash
    /\ Hamming(images[p].hash, images[q].hash) <= run.threshold

\* q is reached from p along a chain of linked images.
Connected(p, q) ==
    \E m \in 1..Len(images) :
        \E path \in [1..m -> Positions(images)] :
            /\ path[1] = p
            /\ path[m] = q
            /\ \A i \in 1..(m - 1) : Linked(path[i], path[i + 1])

Component(p) == {q \in Positions(images) : Connected(p, q)}

\* C1: every duplicate group recorded in the store has a representative that is
\* not flagged duplicate and members that are all flagged duplicate, in the
\* store and in memory, after any sequence of resolver runs.
C1_OneNonDuplicatePerGroup ==
    \A g \in DOMAIN dbGroups :
        /\ ~dbImages[dbGroups[g].best_image_id].is_duplicate
        /\ ~ImageWithId(dbGroups[g].best_image_id).is_duplicate
        /\ \A m \in StoredMembers(g) :
              dbImages[m].is_duplicate /\ ImageWithId(m).is_duplicate

\* C2: after every resolver run each image the run flagged duplicate refers, in
\* memory and in the store, to the id under which the store saved its group,
\* and the ids of the groups of the run are ids of no other group.
C2_GroupReferenceIsStoredId ==
    run.kind # "none" =>
        /\ \A k \in DOMAIN groups :
              \A p \in Members(k) \ {Representative(k)} :
                  /\ images[p].duplicate_group = savedAs[k]
                  /\ dbImages[images[p].id].duplicate_group = savedAs[k]
        /\ \A k \in DOMAIN groups :
              \A g \in DOMAIN dbGroups :
                  (images[Representative(k)].duplicate_group = g) => (g = savedAs[k])

\* C3: in every group of the exact-match resolver the representative is kept
\* with duplicate = false, has the maximum quality score of the group, and
\* among the members with that score is the first of the input list.
C3_ExactRepresentativeIsBest ==
    run.kind = "exact" =>
        \A k \in DOMAIN groups :
            /\ ~images[Representative(k)].is_duplicate
            /\ \A p \in Members(k) :
                  /\ images[p].blur_score <= images[Representative(k)].blur_score
                  /\ (images[p].blur_score = images[Representative(k)].blur_score)
                        => Representative(k) <= p

C3_Witness ==
    /\ run.kind = "exact"
    /\ \E k \in DOMAIN groups :
          /\ Len(groups[k]) = 3
          /\ \E p, q \in Members(k) :
                /\ p < Representative(k)
                /\ Representative(k) < q
                /\ images[p].blur_score < images[q].blur_score
                /\ images[q].blur_score = images[Representative(k)].blur_score

\* C4: greedy_select_best_images returns one group for each non-empty hash that
\* two or more images share, holding exactly the images with that hash; no
\* group has fewer than two members and no image with an empty hash is in one.
C4_ExactGroupsAreSharedHashes ==
    run.kind = "exact" =>
        /\ \A h \in ValidHashes :
              LET same == {p \in Positions(images) : images[p].hash = h}
              IN  IF Cardinality(same) >= 2
                  THEN Cardinality({k \in DOMAIN groups : Members(k) = same}) = 1
                  ELSE \A k \in DOMAIN groups : Members(k) \cap same = {}
        /\ \A k \in DOMAIN groups :
              /\ Len(groups[k]) >= 2
              /\ Cardinality(Members(k)) = Len(groups[k])
              /\ \E h \in ValidHashes : \A p \in Members(k) : images[p].hash = h
        /\ \A p \in Positions(images) :
              images[p].hash = EmptyHash => \A k \in DOMAIN groups : p \notin Members(k)

C4_Witness ==
    /\ run.kind = "exact"
    /\ Len(groups) = 1
    /\ Len(groups[1]) = 2
    /\ \E p \in Positions(images) : images[p].hash = EmptyHash

\* C5: the groups of the graph resolver are exactly the connected components
\* with two or more nodes of the graph that links two images whose hashes are
\* within the threshold; no image is in two groups, and images joined only
\* through a chain are in one group.
C5_GraphGroupsAreComponents ==
    run.kind = "graph" =>
        /\ \A k \in DOMAIN groups :
              /\ Cardinality(Members(k)) >= 2
              /\ Cardinality(Members(k)) = Len(groups[k])
              /\ \A p \in Members(k) : Component(p) = Members(k)
        /\ \A p, q \in Positions(images) :
              (p # q /\ Connected(p, q)) =>
                  \E k \in DOMAIN groups : {p, q} \subseteq Members(k)
        /\ \A k, l \in DOMAIN groups : k # l => Members(k) \cap Members(l) = {}

C5_Witness ==
    /\ run.kind = "graph"
    /\ \E k \in DOMAIN groups :
          \E a, b, c \in Members(k) :
              /\ Linked(a, b)
              /\ Linked(b, c)
              /\ ~Linked(a, c)
              /\ Hamming(images[a].hash, images[c].hash) > run.threshold

\* C6: the graph has an edge between two images exactly when both have a hash
\* and the Hamming distance of the hashes is at most the threshold; the edge
\* carries that distance and the weight 1/(distance+1); two images further
\* apart than the threshold give no edge and no group.
C6_EdgeIffWithinThreshold ==
    run.kind = "graph" =>
        /\ \A p, q \in Positions(images) :
              p < q =>
                  ((\E e \in graph.edges : {e.u, e.v} = {images[p].id, images[q].id})
                      <=> Linked(p, q))
        /\ \A e \in graph.edges :
              LET d == Hamming(ImageWithId(e.u).hash, ImageWithId(e.v).hash)
              IN  /\ e.distance = d
                  /\ e.weight = <<1, d + 1>>
        /\ (/\ Len(images) = 2
            /\ images[1].hash # EmptyHash
            /\ images[2].hash # EmptyHash
            /\ Hamming(images[1].hash, images[2].hash) > run.threshold)
              => (graph.edges = {} /\ groups = <<>> /\ stats.graph_edges = 0)

C6_Witness ==
    /\ run.kind = "graph"
    /\ run.threshold >= 1
    /\ \E e \in graph.edges : e.distance = run.threshold
    /\ \E p, q \in Positions(images) :
          /\ p < q
          /\ images[p].hash # EmptyHash
          /\ images[q].hash # EmptyHash
          /\ ~Linked(p, q)

\* C7: in every group of the graph resolver the representative is kept with
\* duplicate = false and has the maximum quality score of its connected
\* component, and every other member of the component is marked duplicate, in
\* memory and in the store, with the id the resolver gave the group.
C7_GraphRepresentativeIsBest ==
    run.kind = "graph" =>
        \A k \in DOMAIN groups :
            /\ ~images[Representative(k)].is_duplicate
            /\ \A p \in Component(Representative(k)) :
                  images[p].blur_score <= images[Representative(k)].blur_score
            /\ \A p \in Component(Representative(k)) \ {Representative(k)} :
                  /\ images[p].is_duplicate
                  /\ images[p].duplicate_group = k
                  /\ dbImages[images[p].id].is_duplicate
                  /\ dbImages[images[p].id].duplicate_group = k

C7_Witness ==
    /\ run.kind = "graph"
    /\ \E k \in DOMAIN groups :
          /\ Len(groups[k]) = 3
          /\ Representative(k) = 3
          /\ images[1].blur_score < images[3].blur_score
          /\ images[2].blur_score < images[3].blur_score

----------------------------------------------------------------------------
\* clustering.py

\* float('inf')
Infinity == 1000000

\* Distances are carried multiplied by DistScale, which makes the weights
\* 0.6/10 per km and 0.4/24 per hour whole numbers.
DistScale == 10 * 24 * 5
GpsCap == 10
TimeCap == 24
MissingSentinel == 1000
GpsWeight == (6 * DistScale) \div (10 * GpsCap)
TimeWeight == (4 * DistScale) \div (10 * TimeCap)

Abs(x) == IF x < 0 THEN -x ELSE x

\* haversine_distance of two positions on one meridian (lon1 = lon2).
haversine_distance(lat1, lon1, lat2, lon2) == Abs(lat1 - lat2)

calculate_gps_distance(image1, image2) ==
    IF \/ image1.latitude = None \/ image1.longitude = None
       \/ image2.latitude = None \/ image2.longitude = None
    THEN Infinity
    ELSE haversine_distance(image1.latitude, image1.longitude,
                            image2.latitude, image2.longitude)

\* A time difference that keeps its sign.
calculate_time_difference_signed(image1, image2) ==
    IF image1.timestamp = None \/ image2.timestamp = None THEN Infinity
    ELSE image1.timestamp - image2.timestamp

calculate_time_difference(image1, image2) ==
    IF image1.timestamp = None \/ image2.timestamp = None THEN Infinity
    ELSE Abs(image1.timestamp - image2.timestamp)

\* A proximity that is content with one of the two conditions.
are_images_proximate_either(image1, image2, distance_threshold, time_threshold_hours) ==
    \/ calculate_gps_distance(image1, image2) <= distance_threshold
    \/ calculate_time_difference(image1, image2) <= time_threshold_hours

are_images_proximate(image1, image2, distance_threshold, time_threshold_hours) ==
    LET gps_distance == calculate_gps_distance(image1, image2)
        time_diff_hours == calculate_time_difference(image1, image2)
        gps_ok == gps_distance <= distance_threshold
        time_ok == time_diff_hours <= time_threshold_hours
    IN  gps_ok /\ time_ok

\* combined_distance with the default weights, times DistScale.
combined_distance(image1, image2) ==
    LET g0 == calculate_gps_distance(image1, image2)
        t0 == calculate_time_difference(image1, image2)
        gps_dist == IF g0 = Infinity THEN MissingSentinel ELSE g0
        time_diff == IF t0 = Infinity THEN MissingSentinel ELSE t0
    IN  GpsWeight * Min2(gps_dist, GpsCap) + TimeWeight * Min2(time_diff, TimeCap)

\* images.index(img): the first position holding an equal record.
IndexOf(imgs, img) ==
    CHOOSE i \in Positions(imgs) :
        imgs[i] = img /\ \A j \in 1..(i - 1) : imgs[j] # img

\* distances.get((idx1, idx2), float('inf')): the matrix has no diagonal.
DistanceGet(imgs, idx1, idx2) ==
    IF idx1 = idx2 THEN Infinity ELSE combined_distance(imgs[idx1], imgs[idx2])

MinOf(S) == CHOOSE m \in S : \A x \in S : m <= x

\* The minimum distance between any images of two clusters (single linkage).
ClusterDist(imgs, members1, members2) ==
    MinOf({Infinity} \cup
          {DistanceGet(imgs, IndexOf(imgs, imgs[members1[a]]),
                       IndexOf(imgs, imgs[members2[b]])) :
              a \in DOMAIN members1, b \in DOMAIN members2})

\* The scan for the closest pair: clusters is the dict in insertion order, each
\* entry [cid, members]; pairs are visited cid1-major and cid1 >= cid2 is
\* skipped; a pair replaces the best only when strictly closer.  The pairs, the
\* distance of each pair and the minimum are each bound once, innermost last.
PairsInOrder(clusters) ==
    LET n == Len(clusters)
        all == [k \in 1..(n * n) |-> <<((k - 1) \div n) + 1, ((k - 1) % n) + 1>>]
    IN  SelectSeq(all, LAMBDA pr : clusters[pr[1]].cid < clusters[pr[2]].cid)

ClosestPair(imgs, clusters) ==
    CHOOSE r \in UNION {UNION {UNION {
        {[min_distance |-> min_distance,
          closest_pair |-> IF min_distance < Infinity
                           THEN pairs[MinOf({k \in DOMAIN pairs : dist[k] = min_distance})]
                           ELSE <<>>]} :
          min_distance \in {MinOf({Infinity} \cup Range(dist))}} :
          dist \in {[k \in DOMAIN pairs |->
                    ClusterDist(imgs, clusters[pairs[k][1]].members,
                                clusters[pairs[k][2]].members)]}} :
          pairs \in {PairsInOrder(clusters)}} : TRUE

\* A test that lets every distance pass.
NeverExceeds(min_distance, distance_threshold) == FALSE

\* A stop that also refuses a pair exactly at the threshold.
ReachesThreshold(min_distance, distance_threshold) == min_distance >= distance_threshold

\* The loop of hierarchical_cluster_images stops: one cluster left, the
\* minimum distance above the threshold, or max_clusters reached.
ExceedsThreshold(min_distance, distance_threshold) == min_distance > distance_threshold

\* A loop that does not look at max_clusters.
LoopStopsWithoutLimit(imgs, clusters, distance_threshold, max_clusters) ==
    \/ Len(clusters) <= 1
    \/ ExceedsThreshold(ClosestPair(imgs, clusters).min_distance, distance_threshold)

LoopStops(imgs, clusters, distance_threshold, max_clusters) ==
    \/ Len(clusters) <= 1
    \/ ExceedsThreshold(ClosestPair(imgs, clusters).min_distance, distance_threshold)
    \/ (max_clusters # None /\ max_clusters # 0 /\ Len(clusters) <= max_clusters)

\* A merge that leaves the clusters as they are.
MergePairNothing(clusters, pr) == clusters

\* A merge that replaces the members of cid1 instead of extending them.
MergePairOverwriting(clusters, pr) ==
    LET merged == [clusters EXCEPT ![pr[1]].members = clusters[pr[2]].members]
    IN  SubSeq(merged, 1, pr[2] - 1) \o SubSeq(merged, pr[2] + 1, Len(merged))

\* clusters[cid1].extend(clusters[cid2]); del clusters[cid2]
MergePair(clusters, pr) ==
    LET merged == [clusters EXCEPT ![pr[1]].members = @ \o clusters[pr[2]].members]
    IN  SubSeq(merged, 1, pr[2] - 1) \o SubSeq(merged, pr[2] + 1, Len(merged))

\* A return that keeps the keys the clusters had during the merging.
KeepOldIds(clusters) ==
    [k \in DOMAIN clusters |-> [id |-> clusters[k].cid, members |-> clusters[k].members]]

\* result[new_id] = cluster_images for new_id, ... in enumerate(clusters.items())
Renumber(clusters) ==
    [k \in DOMAIN clusters |-> [id |-> k - 1, members |-> clusters[k].members]]

\* The tail of cluster_images: images whose id is in no cluster go to cluster 0.
AddOutliers(imgs, result) ==
    LET r0 == IF result = <<>> THEN <<[id |-> 0, members |-> <<>>]>> ELSE result
        clustered_image_ids == UNION {{imgs[q].id : q \in Range(r0[k].members)} :
                                         k \in DOMAIN r0}
        outliers == SelectSeq([p \in DOMAIN imgs |-> p],
                              LAMBDA p : imgs[p].id \notin clustered_image_ids)
    IN  IF outliers = <<>> THEN r0
        ELSE [k \in DOMAIN r0 |->
                IF r0[k].id = 0 THEN [r0[k] EXCEPT !.members = @ \o outliers] ELSE r0[k]]

\* A conversion without the cap at 1 and without the halving.
CombinedThresholdUncapped(distance_threshold, time_threshold_hours) ==
    (DistScale \div GpsCap) * distance_threshold
        + (DistScale \div TimeCap) * time_threshold_hours

\* combined_threshold = min(distance_threshold/10 + time_threshold_hours/24, 1) * 0.5
CombinedThreshold(distance_threshold, time_threshold_hours) ==
    Min2((DistScale \div GpsCap) * distance_threshold
            + (DistScale \div TimeCap) * time_threshold_hours, DistScale) \div 2

\* The inputs of the clustering runs.
GpsValues == {<<None, None>>, <<0, 0>>, <<5, 0>>, <<MaxKm, 0>>}
TimeValues == {None, 0, MaxHours}
CombThresholds == {(DistScale \div 10) * i : i \in 0..MaxThresholdUnits}
ClusterLimits == {None} \cup 0..MaxClusterLimit
DistanceThresholdsKm == {1, MaxDistanceKm}
TimeThresholdsHours == {2, MaxTimeHours}

InitCluster == InitWith(GpsValues, TimeValues, {Unreadable})

\* One singleton cluster per image, keyed by position - 1.
Singletons(imgs) == [i \in DOMAIN imgs |-> [cid |-> i - 1, members |-> <<i>>]]

\* The entry of hierarchical_cluster_images up to the loop: the empty list and
\* the single image return at once.
Enter(mode, distance_threshold, max_clusters) ==
    IF Len(images) = 0
    THEN [pc |-> "done", mode |-> mode, threshold |-> distance_threshold,
          max_clusters |-> max_clusters, clusters |-> <<>>, result |-> <<>>]
    ELSE IF Len(images) = 1
    THEN [pc |-> "done", mode |-> mode, threshold |-> distance_threshold,
          max_clusters |-> max_clusters, clusters |-> <<>>,
          result |-> IF mode = "cluster_images"
                     THEN AddOutliers(images, <<[id |-> 0, members |-> <<1>>]>>)
                     ELSE <<[id |-> 0, members |-> <<1>>]>>]
    ELSE [pc |-> "loop", mode |-> mode, threshold |-> distance_threshold,
          max_clusters |-> max_clusters, clusters |-> Singletons(images),
          result |-> <<>>]

\* hierarchical_cluster_images(images, distance_threshold, max_clusters)
StartHierarchical ==
    /\ pc = "saved"
    /\ hc.pc = "idle"
    /\ \E distance_threshold \in CombThresholds, max_clusters \in ClusterLimits :
          hc' = Enter("hierarchical", distance_threshold, max_clusters)
    /\ UNCHANGED <<images, files, dbImages, dbGroups, dbClusters, pc, resolverVars, out>>

\* cluster_images(images, distance_threshold, time_threshold_hours)
StartClusterImages ==
    /\ pc = "saved"
    /\ hc.pc = "idle"
    /\ \E distance_threshold \in DistanceThresholdsKm,
          time_threshold_hours \in TimeThresholdsHours :
          hc' = Enter("cluster_images",
                      CombinedThreshold(distance_threshold, time_threshold_hours), None)
    /\ UNCHANGED <<images, files, dbImages, dbGroups, dbClusters, pc, resolverVars, out>>

\* One round of the loop that merges the closest pair.
Merge ==
    /\ hc.pc = "loop"
    /\ ~LoopStops(images, hc.clusters, hc.threshold, hc.max_clusters)
    /\ \E cp \in {ClosestPair(images, hc.clusters)} :
          hc' = [hc EXCEPT !.clusters =
                    IF cp.closest_pair # <<>> THEN MergePair(@, cp.closest_pair) ELSE @]
    /\ UNCHANGED <<images, files, dbImages, dbGroups, dbClusters, pc, resolverVars, out>>

\* The round that leaves the loop, the renumbering and the return.
Finish ==
    /\ hc.pc = "loop"
    /\ LoopStops(images, hc.clusters, hc.threshold, hc.max_clusters)
    /\ hc' = [hc EXCEPT !.pc = "done",
                        !.result = IF hc.mode = "cluster_images"
                                   THEN AddOutliers(images, Renumber(hc.clusters))
                                   ELSE Renumber(hc.clusters)]
    /\ UNCHANGED <<images, files, dbImages, dbGroups, dbClusters, pc, resolverVars, out>>

NextCluster == SaveImages \/ StartHierarchical \/ StartClusterImages \/ Merge \/ Finish

SpecCluster == InitCluster /\ [][NextCluster]_vars

\* The function runs to its end once called: every iteration of the loop is
\* executed.
LiveGps == {<<None, None>>, <<0, 0>>, <<5, 0>>}
LiveTimes == {0, MaxHours}
InitClusterLive == InitWith(LiveGps, LiveTimes, {Unreadable})

SpecClusterLive ==
    InitClusterLive /\ [][NextCluster]_vars /\ WF_vars(Merge) /\ WF_vars(Finish)

\* cluster_images alone, on images at the distance threshold of each other.
CloseGps == {<<None, None>>, <<0, 0>>, <<MaxDistanceKm, 0>>}
CloseTimes == {0, 2}
InitProximity == InitWith(CloseGps, CloseTimes, {Unreadable})
NextProximity == SaveImages \/ StartClusterImages \/ Merge \/ Finish
SpecProximity == InitProximity /\ [][NextProximity]_vars

----------------------------------------------------------------------------
\* Properties of the clustering

ClusterMembers(k) == Range(hc.result[k].members)

SameCluster(p, q) == \E k \in DOMAIN hc.result : {p, q} \subseteq ClusterMembers(k)

C9_ClustersPartitionInput ==
    hc.pc = "done" =>
        /\ \A k \in DOMAIN hc.result :
              /\ hc.result[k].members # <<>>
              /\ Cardinality(ClusterMembers(k)) = Len(hc.result[k].members)
        /\ \A k, l \in DOMAIN hc.result :
              k # l => ClusterMembers(k) \cap ClusterMembers(l) = {}
        /\ UNION {ClusterMembers(k) : k \in DOMAIN hc.result} = Positions(images)
        /\ Len(images) = 0 => hc.result = <<>>
        /\ Len(images) = 1 => hc.result = <<[id |-> 0, members |-> <<1>>]>>

C9_Witness ==
    /\ hc.pc = "done"
    /\ hc.mode = "cluster_images"
    /\ Len(hc.result) = 2
    /\ Len(images) = 3
    /\ \E p \in Positions(images) : images[p].latitude = None
    /\ \E p \in Positions(images) : images[p].timestamp = None /\ images[p].latitude # None

\* C10: the clusters returned are keyed 0, 1, ..., k-1 without a gap, in
\* increasing order of the input position of their earliest member, so the
\* first input image is in cluster 0.
C10_ConsecutiveIdsInInputOrder ==
    hc.pc = "done" =>
        /\ \A k \in DOMAIN hc.result : hc.result[k].id = k - 1
        /\ \A k, l \in DOMAIN hc.result :
              k < l => MinOf(ClusterMembers(k)) < MinOf(ClusterMembers(l))
        /\ Len(images) > 0 =>
              \E k \in DOMAIN hc.result : hc.result[k].id = 0 /\ 1 \in ClusterMembers(k)

C10_Witness ==
    /\ hc.pc = "done"
    /\ hc.mode = "hierarchical"
    /\ Len(images) = 3
    /\ Len(hc.result) = 2
    /\ hc.result[1].members = <<1, 3>>
    /\ hc.result[2] = [id |-> 1, members |-> <<2>>]

----------------------------------------------------------------------------
\* clustering.py, cluster metadata and storage of the clusters

\* The reference locations of the cluster names, in km of arc:
\* 40.7128, -74.0060 (NYC) and 34.0522, -118.2437 (LA); the tolerance of one
\* degree is 111 km.
NycLat == 4527
NycLon == -8229
LaLat == 3786
LaLon == -13148
OneDegree == 111

Cluster(name, center_lat, center_lon, start_time, end_time, image_count) ==
    [id |-> None, name |-> name, center_lat |-> center_lat, center_lon |-> center_lon,
     start_time |-> start_time, end_time |-> end_time, image_count |-> image_count]

\* A center that is None: the fraction without a denominator.
NoCenter == [num |-> 0, den |-> 0]

\* Cluster(): the defaults of the dataclass.
EmptyCluster == Cluster(<<>>, NoCenter, NoCenter, None, None, 0)

RECURSIVE Sum(_)
Sum(s) == IF s = <<>> THEN 0 ELSE Head(s) + Sum(Tail(s))

MaxOf(S) == CHOOSE m \in S : \A x \in S : x <= m

\* A mean taken from the first member alone.
AverageOfFirst(s) == [num |-> Head(s), den |-> 1]

\* sum(...) / len(valid_coords), kept as numerator and denominator.
Average(s) == [num |-> Sum(s), den |-> Len(s)]

\* abs(center - reference) < 1 for a center kept as a fraction.
WithinOneDegree(center, reference) ==
    Abs(center.num - reference * center.den) < OneDegree * center.den

\* start_time.strftime("%Y-%m-%d"): hour 0 is 2025-10-29 00:00.
DateStr(ts) == <<"2025-10-", ToString(29 + (ts \div 24))>>

\* The branch taken for a centroid near no reference location.
LocationName(center_lat, center_lon) ==
    IF center_lat # NoCenter /\ center_lon # NoCenter
    THEN IF WithinOneDegree(center_lat, NycLat) /\ WithinOneDegree(center_lon, NycLon)
         THEN "NYC"
         ELSE IF WithinOneDegree(center_lat, LaLat) /\ WithinOneDegree(center_lon, LaLon)
         THEN "LA"
         ELSE ".1f"
    ELSE "Unknown"

\* calculate_cluster_metadata(images): imgs is the member list of one cluster.
calculate_cluster_metadata(imgs) ==
    IF imgs = <<>> THEN EmptyCluster
    ELSE LET valid_coords == SelectSeq(imgs, LAMBDA img :
                                 img.latitude # None /\ img.longitude # None)
             center_lat == IF valid_coords # <<>>
                           THEN Average([k \in DOMAIN valid_coords |->
                                            valid_coords[k].latitude])
                           ELSE NoCenter
             center_lon == IF valid_coords # <<>>
                           THEN Average([k \in DOMAIN valid_coords |->
                                            valid_coords[k].longitude])
                           ELSE NoCenter
             valid_images == SelectSeq(imgs, LAMBDA img : img.timestamp # None)
             valid_times == {valid_images[k].timestamp : k \in DOMAIN valid_images}
             start_time == IF valid_times # {} THEN MinOf(valid_times) ELSE None
             end_time == IF valid_times # {} THEN MaxOf(valid_times) ELSE None
             location_name == LocationName(center_lat, center_lon)
             name == IF start_time # None
                     THEN <<location_name, "_">> \o DateStr(start_time)
                     ELSE <<location_name, "_cluster">>
         IN  Cluster(name, center_lat, center_lon, start_time, end_time, Len(imgs))

\* Database.add_cluster: INSERT, the row id is lastrowid.
add_cluster(rows, cluster) == Append(rows, [cluster EXCEPT !.id = Len(rows) + 1])

\* The loop of hierarchical_cluster_images run to its end.
RECURSIVE MergeLoop(_, _, _, _)
MergeLoop(imgs, clusters, distance_threshold, max_clusters) ==
    IF LoopStops(imgs, clusters, distance_threshold, max_clusters) THEN clusters
    ELSE MergeLoop(imgs, MergePair(clusters, ClosestPair(imgs, clusters).closest_pair),
                   distance_threshold, max_clusters)

hierarchical_cluster_images(imgs, distance_threshold, max_clusters) ==
    IF Len(imgs) = 0 THEN <<>>
    ELSE IF Len(imgs) = 1 THEN <<[id |-> 0, members |-> <<1>>]>>
    ELSE Renumber(MergeLoop(imgs, Singletons(imgs), distance_threshold, max_clusters))

cluster_images(imgs, distance_threshold, time_threshold_hours) ==
    IF imgs = <<>> THEN <<>>
    ELSE AddOutliers(imgs,
            hierarchical_cluster_images(imgs,
                CombinedThreshold(distance_threshold, time_threshold_hours), None))

RECURSIVE UpdateClusterOfAll(_, _, _)
UpdateClusterOfAll(rows, ids, db_cluster_id) ==
    IF ids = <<>> THEN rows
    ELSE UpdateClusterOfAll(update_image_cluster(rows, OrZero(Head(ids)), db_cluster_id),
                            Tail(ids), db_cluster_id)

\* save_clusters_to_database: per cluster, in the order of the dict, the
\* metadata row is added and every member's row gets the id of that row.
RECURSIVE save_clusters_to_database(_, _, _, _)
save_clusters_to_database(clusters, imgs, rowsI, rowsC) ==
    IF clusters = <<>> THEN [dbImages |-> rowsI, dbClusters |-> rowsC]
    ELSE LET members == Head(clusters).members
             cluster_metadata == calculate_cluster_metadata(
                                     [k \in DOMAIN members |-> imgs[members[k]]])
             rowsC2 == add_cluster(rowsC, cluster_metadata)
             db_cluster_id == Len(rowsC2)
             rowsI2 == UpdateClusterOfAll(rowsI,
                                          [k \in DOMAIN members |-> imgs[members[k]].id],
                                          db_cluster_id)
         IN  save_clusters_to_database(Tail(clusters), imgs, rowsI2, rowsC2)

----------------------------------------------------------------------------
\* app.py, process_images with every stage

\* The inputs of a pipeline run.
PipelineGps == {<<None, None>>, <<0, 0>>, <<MaxKm, 0>>}
PipelineTimes == {0}
PipelineFiles ==
    {Unreadable, [readable |-> TRUE, sharp |-> 1, ahash |-> 0],
     [readable |-> TRUE, sharp |-> MaxScore, ahash |-> 0],
     [readable |-> TRUE, sharp |-> MaxScore, ahash |-> 1]}

InitPipeline == InitWith(PipelineGps, PipelineTimes, PipelineFiles)

\* Step 2, when clustering is enabled: process_and_save_clustering.
ClusterStage ==
    /\ pc = "saved"
    /\ \E distance_threshold \in DistanceThresholdsKm,
          time_threshold_hours \in TimeThresholdsHours :
        \E clusters \in {cluster_images(images, distance_threshold, time_threshold_hours)} :
        \E st \in {save_clusters_to_database(clusters, images, dbImages, dbClusters)} :
            /\ dbImages' = st.dbImages
            /\ dbClusters' = st.dbClusters
            /\ hc' = [pc |-> "done", mode |-> "cluster_images",
                      threshold |-> CombinedThreshold(distance_threshold,
                                                      time_threshold_hours),
                      max_clusters |-> None, clusters |-> <<>>, result |-> clusters]
    /\ pc' = "clustered"
    /\ UNCHANGED <<images, files, dbGroups, resolverVars, out>>

\* A pipeline that runs the exact-match resolver after the graph resolver.
ExactAfterGraph == runs = <<"graph">> /\ RunExact

\* Step 4, when the blur filter is enabled.
PipelineExact == runs = <<>> /\ RunExact

\* Step 5, when the graph duplicates are enabled.
PipelineGraph == "graph" \notin Range(runs) /\ RunGraph

\* return all_stats
Return ==
    /\ pc = "ready"
    /\ pc' = "done"
    /\ UNCHANGED <<images, files, dbImages, dbGroups, dbClusters, resolverVars, hc, out>>

NextPipeline ==
    SaveImages \/ ClusterStage \/ Backfill \/ PipelineExact \/ PipelineGraph \/ Return

SpecPipeline == InitPipeline /\ [][NextPipeline]_vars

\* The operations of the pipeline called in any order on the saved images:
\* the resolvers up to MaxRuns times, and process_and_save_clustering once
\* more after a resolver run.
OperationsGps == {<<0, 0>>, <<MaxKm, 0>>}
OperationsFiles ==
    {[readable |-> TRUE, sharp |-> 1, ahash |-> 0],
     [readable |-> TRUE, sharp |-> MaxScore, ahash |-> 1]}

InitOperations == InitWith(OperationsGps, PipelineTimes, OperationsFiles)

ClusterLater ==
    /\ pc = "ready"
    /\ runs # <<>>
    /\ Len(dbClusters) <= MaxImages
    /\ \E distance_threshold \in DistanceThresholdsKm,
          time_threshold_hours \in TimeThresholdsHours :
        \E clusters \in {cluster_images(images, distance_threshold, time_threshold_hours)} :
        \E st \in {save_clusters_to_database(clusters, images, dbImages, dbClusters)} :
            /\ dbImages' = st.dbImages
            /\ dbClusters' = st.dbClusters
            /\ hc' = [pc |-> "done", mode |-> "cluster_images",
                      threshold |-> CombinedThreshold(distance_threshold,
                                                      time_threshold_hours),
                      max_clusters |-> None, clusters |-> <<>>, result |-> clusters]
    /\ UNCHANGED <<images, files, dbGroups, pc, resolverVars, out>>

NextOperations ==
    SaveImages \/ ClusterStage \/ Backfill \/ RunExact \/ RunGraph \/ ClusterLater

SpecOperations == InitOperations /\ [][NextOperations]_vars

----------------------------------------------------------------------------
\* A storage operation that raises

\* The writes of a run in the order in which the code makes them: writes to
\* the image objects ("memory") and calls of the store.
SetFlags(p, is_duplicate, duplicate_group) ==
    [op |-> "memory", p |-> p, is_duplicate |-> is_duplicate,
     duplicate_group |-> duplicate_group]
CallMark(image_id, duplicate_group) ==
    [op |-> "mark_as_duplicate", image_id |-> image_id, duplicate_group |-> duplicate_group]
CallSaveGroup(group) == [op |-> "save_duplicate_group", group |-> group]
CallScore(image_id, blur_score) ==
    [op |-> "update_image_blur_score", image_id |-> image_id, blur_score |-> blur_score]
CallAddCluster(cluster) == [op |-> "add_cluster", cluster |-> cluster]
CallUpdateCluster(image_id, cluster_id) ==
    [op |-> "update_image_cluster", image_id |-> image_id, cluster_id |-> cluster_id]

RECURSIVE Concat(_)
Concat(seqs) == IF seqs = <<>> THEN <<>> ELSE Head(seqs) \o Concat(Tail(seqs))

\* The body of the loop over duplicate_groups, the same in both resolvers:
\* the first image of the sorted group is kept, every other image is flagged
\* and marked in the store, then the group is saved.
GroupSteps(imgs, sorted_group, group_id) ==
    LET best_image == sorted_group[1]
        others == Tail(sorted_group)
        duplicate_ids == [k \in 1..Len(others) |-> imgs[others[k]].id]
    IN  <<SetFlags(best_image, FALSE, group_id)>>
        \o Concat([k \in 1..Len(others) |->
                     <<SetFlags(others[k], TRUE, group_id),
                       CallMark(OrZero(imgs[others[k]].id), group_id)>>])
        \o <<CallSaveGroup(DuplicateGroup(group_id, imgs[best_image].id,
                                          PyStr(duplicate_ids)))>>

\* process_blur_filtering on imgs, which carry their scores: the groups, then
\* the score of every kept image that is not flagged.
ExactSteps(imgs, rowsI, rowsG) ==
    LET duplicate_groups == greedy_select_best_images(imgs)
        st == filter_blurred_duplicates(imgs, rowsI, rowsG)
        unflagged == SelectSeq(st.filtered, LAMBDA p : ~st.images[p].is_duplicate)
    IN  Concat([k \in DOMAIN duplicate_groups |->
                   GroupSteps(imgs, SortByBlur(duplicate_groups[k], imgs), k)])
        \o [k \in DOMAIN unflagged |->
               CallScore(OrZero(st.images[unflagged[k]].id),
                         st.images[unflagged[k]].blur_score)]

\* Step 4 of detect_graph_based_duplicates on the groups found.
GraphSteps(imgs, duplicate_groups) ==
    Concat([k \in DOMAIN duplicate_groups |-> GroupSteps(imgs, duplicate_groups[k], k)])

\* save_clusters_to_database: per cluster the row of the cluster, then the
\* row of every member; db_cluster_id is the id the store gives the row.
ClusterSteps(clusters, imgs, rowsC) ==
    Concat([k \in DOMAIN clusters |->
               LET members == clusters[k].members
               IN  <<CallAddCluster(calculate_cluster_metadata(
                                        [j \in DOMAIN members |-> imgs[members[j]]]))>>
                   \o [j \in DOMAIN members |->
                          CallUpdateCluster(OrZero(imgs[members[j]].id),
                                            Len(rowsC) + k)]])

\* The effect of one write on the image list and the three tables.
Apply(st, w) ==
    CASE w.op = "memory" ->
            [st EXCEPT !.images[w.p].is_duplicate = w.is_duplicate,
                       !.images[w.p].duplicate_group = w.duplicate_group]
      [] w.op = "mark_as_duplicate" ->
            [st EXCEPT !.dbImages = mark_as_duplicate(@, w.image_id, w.duplicate_group)]
      [] w.op = "save_duplicate_group" ->
            [st EXCEPT !.dbGroups = save_duplicate_group(@, w.group)]
      [] w.op = "update_image_blur_score" ->
            [st EXCEPT !.dbImages = update_image_blur_score(@, w.image_id, w.blur_score)]
      [] w.op = "add_cluster" ->
            [st EXCEPT !.dbClusters = add_cluster(@, w.cluster)]
      [] w.op = "update_image_cluster" ->
            [st EXCEPT !.dbImages = update_image_cluster(@, w.image_id, w.cluster_id)]

RECURSIVE Play(_, _)
Play(st, steps) == IF steps = <<>> THEN st ELSE Play(Apply(st, Head(steps)), Tail(steps))

StoreCalls(steps) == SelectSeq(steps, LAMBDA w : w.op # "memory")

\* A failure that undoes the calls of the store made before it.
CompletedRolledBack(steps, k) ==
    SelectSeq(SubSeq(steps, 1, k - 1), LAMBDA w : w.op = "memory")

\* The writes made when the k-th write raises: each call of the store is a
\* transaction of its own, committed before the call returns, and the call
\* that raises writes nothing.
Completed(steps, k) == SubSeq(steps, 1, k - 1)

\* The k-th write, a call of the store, raises; the exception leaves the run
\* and process_images, and nothing is caught or called again.
Raise(call, start, steps) ==
    \E k \in {i \in DOMAIN steps : steps[i].op # "memory"} :
        \E st \in {Play(start, Completed(steps, k))} :
            /\ images' = st.images
            /\ dbImages' = st.dbImages
            /\ dbGroups' = st.dbGroups
            /\ dbClusters' = st.dbClusters
            /\ pc' = "failed"
            /\ out' = [call |-> call, raised |-> steps[k],
                       returned |-> StoreCalls(SubSeq(steps, 1, k - 1)),
                       before |-> [dbImages |-> dbImages, dbGroups |-> dbGroups,
                                   dbClusters |-> dbClusters]]
            /\ UNCHANGED <<files, resolverVars, hc>>

StartOf(imgs) ==
    [images |-> imgs, dbImages |-> dbImages, dbGroups |-> dbGroups,
     dbClusters |-> dbClusters]

ClusterFails ==
    /\ pc = "saved"
    /\ \E distance_threshold \in DistanceThresholdsKm,
          time_threshold_hours \in TimeThresholdsHours :
        \E clusters \in {cluster_images(images, distance_threshold, time_threshold_hours)} :
            Raise("process_and_save_clustering", StartOf(images),
                  ClusterSteps(clusters, images, dbClusters))

ExactFails ==
    /\ pc = "ready"
    /\ runs = <<>>
    /\ \E imgs \in {calculate_blur_scores(images, files)} :
          Raise("process_blur_filtering", StartOf(imgs),
                ExactSteps(imgs, dbImages, dbGroups))

GraphFails ==
    /\ pc = "ready"
    /\ "graph" \notin Range(runs)
    /\ \E similarity_threshold \in Thresholds,
          iteration \in Enumerations({images[p].id : p \in Positions(images)}) :
        \E imgs \in {EnsureHashes(images, files)} :
        \E G \in {build_similarity_graph(imgs, similarity_threshold)} :
        \E duplicate_groups \in {find_connected_duplicate_groups(G, imgs, iteration)} :
            Raise("detect_graph_based_duplicates", StartOf(imgs),
                  GraphSteps(imgs, duplicate_groups))

NextFailure ==
    \/ SaveImages \/ ClusterStage \/ Backfill \/ PipelineExact \/ PipelineGraph
    \/ ClusterFails \/ ExactFails \/ GraphFails

SpecFailure == InitOperations /\ [][NextFailure]_vars

----------------------------------------------------------------------------
\* Properties of the pipeline

StoredImage(p) == dbImages[images[p].id]

\* C11: when the pipeline has returned, the row of every image in the store
\* has the cluster id, the duplicate flag, the duplicate-group id, the quality
\* score and the hash of the image record in memory.
C11_StoreMatchesMemory ==
    pc = "done" =>
        \A p \in Positions(images) :
            /\ StoredImage(p).cluster_id = images[p].cluster_id
            /\ StoredImage(p).is_duplicate = images[p].is_duplicate
            /\ StoredImage(p).duplicate_group = images[p].duplicate_group
            /\ StoredImage(p).blur_score = images[p].blur_score
            /\ StoredImage(p).hash = images[p].hash

ClusterAssignmentsUnchanged ==
    /\ dbClusters' = dbClusters
    /\ DOMAIN dbImages' = DOMAIN dbImages
    /\ \A r \in DOMAIN dbImages : dbImages'[r].cluster_id = dbImages[r].cluster_id

\* C12: the stages run in one order: the images are saved before anything else
\* is written; cluster rows and cluster assignments are written only before the
\* backfill; scores are backfilled before any resolver runs; once a resolver has
\* written, no cluster assignment is written; and once the graph resolver has
\* run, the exact-match resolver does not run.
C12_FixedStageOrder ==
    [][/\ pc = "loaded" =>
            (dbImages = <<>> /\ dbClusters = <<>> /\ dbGroups = <<>> /\ runs = <<>>)
       /\ (dbImages' # dbImages /\ pc # "loaded") => Len(dbImages') = Len(dbImages)
       /\ pc \in {"clustered", "ready", "done"} => ClusterAssignmentsUnchanged
       /\ pc \in {"loaded", "saved", "clustered"} =>
            (dbGroups' = dbGroups /\ runs' = <<>>
             /\ \A r \in DOMAIN dbImages :
                   dbImages'[r].is_duplicate = dbImages[r].is_duplicate)
       /\ runs # <<>> => ClusterAssignmentsUnchanged
       /\ "graph" \in Range(runs) => runs' = runs
      ]_vars

C12_Witness ==
    /\ pc = "done"
    /\ runs = <<"exact", "graph">>
    /\ Len(dbClusters) = 2
    /\ Len(dbGroups) = 2

----------------------------------------------------------------------------
\* calculate_cluster_metadata applied to a member list

\* Positions near and away from the reference locations, and times on two days.
FarKm == OneDegree + (OneDegree \div 2)
MetadataGps ==
    {<<None, None>>, <<NycLat, None>>, <<NycLat, NycLon>>, <<NycLat + FarKm, NycLon>>,
     <<LaLat, LaLon>>, <<NycLat, LaLon>>}
MetadataTimes == {None, 0, 30}

InitMetadata == InitWith(MetadataGps, MetadataTimes, {Unreadable})

Describe ==
    /\ out = NoCall
    /\ out' = [call |-> "calculate_cluster_metadata",
               result |-> calculate_cluster_metadata(images)]
    /\ UNCHANGED <<images, files, dbImages, dbGroups, dbClusters, pc, resolverVars, hc>>

NextMetadata == Describe

SpecMetadata == InitMetadata /\ [][NextMetadata]_vars

WithGps == {p \in Positions(images) :
               images[p].latitude # None /\ images[p].longitude # None}
WithTime == {p \in Positions(images) : images[p].timestamp # None}

RECURSIVE SumOver(_, _)
SumOver(S, field) ==
    IF S = {} THEN 0
    ELSE LET p == CHOOSE q \in S : TRUE
         IN  images[p][field] + SumOver(S \ {p}, field)

\* m is the arithmetic mean of the field over the positions S.
IsMeanOf(m, S, field) == m.den > 0 /\ m.num * Cardinality(S) = SumOver(S, field) * m.den

\* C13: for a member list that is not empty the centroid is the mean latitude
\* and longitude of the members that have both, or None when there is none;
\* start and end are the earliest and latest timestamp of the members that
\* have one, or None; image_count counts every member.
C13_MetadataOverCarriers ==
    (out.call = "calculate_cluster_metadata" /\ Len(images) > 0) =>
        /\ IF WithGps = {}
           THEN out.result.center_lat = NoCenter /\ out.result.center_lon = NoCenter
           ELSE /\ IsMeanOf(out.result.center_lat, WithGps, "latitude")
                /\ IsMeanOf(out.result.center_lon, WithGps, "longitude")
        /\ IF WithTime = {}
           THEN out.result.start_time = None /\ out.result.end_time = None
           ELSE /\ \E p \in WithTime : images[p].timestamp = out.result.start_time
                /\ \E p \in WithTime : images[p].timestamp = out.result.end_time
                /\ \A p \in WithTime :
                      /\ out.result.start_time <= images[p].timestamp
                      /\ images[p].timestamp <= out.result.end_time
        /\ out.result.image_count = Len(images)

C13_Witness ==
    /\ out.call = "calculate_cluster_metadata"
    /\ Len(images) = 3
    /\ Cardinality(WithGps) = 2
    /\ Cardinality(WithTime) = 2
    /\ \E p \in Positions(images) : images[p].latitude # None /\ images[p].longitude = None
    /\ out.result.center_lat.num # out.result.center_lat.den * images[1].latitude
    /\ out.result.start_time < out.result.end_time

\* The centroid, a fraction, lies less than one degree from the reference.
NearReference(lat, lon) ==
    /\ out.result.center_lat # NoCenter
    /\ out.result.center_lon # NoCenter
    /\ Abs(out.result.center_lat.num - lat * out.result.center_lat.den)
          < OneDegree * out.result.center_lat.den
    /\ Abs(out.result.center_lon.num - lon * out.result.center_lon.den)
          < OneDegree * out.result.center_lon.den

\* C14: the name of a cluster is the label NYC or LA when the centroid exists
\* and lies within one degree of that location in latitude and longitude, and
\* the label Unknown otherwise, followed by "_" and the start date when there
\* is a time span and by "_cluster" when there is none.
C14_NameFromLocationAndDate ==
    (out.call = "calculate_cluster_metadata" /\ Len(images) > 0) =>
        LET label == IF NearReference(NycLat, NycLon) THEN "NYC"
                     ELSE IF NearReference(LaLat, LaLon) THEN "LA"
                     ELSE "Unknown"
        IN  out.result.name =
                IF out.result.start_time # None
                THEN <<label, "_">> \o DateStr(out.result.start_time)
                ELSE <<label, "_cluster">>

----------------------------------------------------------------------------
\* The distance functions applied to a pair of images

\* Images with and without latitude, longitude and timestamp; MaxKm is beyond
\* the cap of the GPS term and LateHour beyond the cap of the time term.
LateHour == TimeCap + MaxHours
MetricGps == {<<None, None>>, <<0, None>>, <<0, 0>>, <<5, 0>>, <<MaxKm, 0>>}
MetricTimes == {None, 0, MaxHours, LateHour}
ProximityKm == {0, MaxDistanceKm}
ProximityHours == {0, MaxTimeHours}

InitMetric == InitWith(MetricGps, MetricTimes, {Unreadable})

\* combined_distance(image1, image2) and the call with the arguments swapped.
Distance ==
    /\ out = NoCall
    /\ \E a, b \in Positions(images) :
          out' = [call |-> "combined_distance", a |-> a, b |-> b,
                  result |-> combined_distance(images[a], images[b]),
                  swapped |-> combined_distance(images[b], images[a])]
    /\ UNCHANGED <<images, files, dbImages, dbGroups, dbClusters, pc, resolverVars, hc>>

\* are_images_proximate(image1, image2, distance_threshold, time_threshold_hours),
\* with the two distances it computes.
Proximate ==
    /\ out = NoCall
    /\ \E a, b \in Positions(images), distance_threshold \in ProximityKm,
          time_threshold_hours \in ProximityHours :
          out' = [call |-> "are_images_proximate", a |-> a, b |-> b,
                  distance_threshold |-> distance_threshold,
                  time_threshold_hours |-> time_threshold_hours,
                  gps_distance |-> calculate_gps_distance(images[a], images[b]),
                  time_diff_hours |-> calculate_time_difference(images[a], images[b]),
                  result |-> are_images_proximate(images[a], images[b],
                                                  distance_threshold,
                                                  time_threshold_hours)]
    /\ UNCHANGED <<images, files, dbImages, dbGroups, dbClusters, pc, resolverVars, hc>>

NextMetric == Distance \/ Proximate

SpecMetric == InitMetric /\ [][NextMetric]_vars

HasGps(p) == images[p].latitude # None /\ images[p].longitude # None
HasTime(p) == images[p].timestamp # None

\* C15: the combined distance of an image to itself is 0, whether or not the
\* image has GPS and a timestamp.
C15_DistanceToSelfIsZero ==
    (out.call = "combined_distance" /\ out.a = out.b) => out.result = 0

\* C16: with the default weights the combined distance is the same in both
\* directions and lies in [0, 1]; a pair with missing GPS has the spatial term
\* 0.6 * 1.0 and a pair with a missing timestamp the temporal term 0.4 * 1.0,
\* the other term being that of the values present.
C16_SymmetricAndBounded ==
    out.call = "combined_distance" =>
        LET spatial == IF HasGps(out.a) /\ HasGps(out.b)
                       THEN LET km == Abs(images[out.a].latitude - images[out.b].latitude)
                            IN  IF km >= GpsCap THEN (6 * DistScale) \div 10
                                ELSE (6 * DistScale * km) \div (10 * GpsCap)
                       ELSE (6 * DistScale) \div 10
            temporal == IF HasTime(out.a) /\ HasTime(out.b)
                        THEN LET h == Abs(images[out.a].timestamp - images[out.b].timestamp)
                             IN  IF h >= TimeCap THEN (4 * DistScale) \div 10
                                 ELSE (4 * DistScale * h) \div (10 * TimeCap)
                        ELSE (4 * DistScale) \div 10
        IN  /\ out.result = out.swapped
            /\ 0 <= out.result
            /\ out.result <= DistScale
            /\ out.result = spatial + temporal

C16_Witness ==
    /\ out.call = "combined_distance"
    /\ out.a # out.b
    /\ ~HasGps(out.a)
    /\ HasGps(out.b)
    /\ HasTime(out.a)
    /\ HasTime(out.b)
    /\ images[out.a].timestamp < images[out.b].timestamp
    /\ out.result < DistScale

----------------------------------------------------------------------------
\* Properties of the stored groups and of the images the resolvers pass over

IdsOf(S) == {images[p].id : p \in S}

\* C18: for every group a resolver run saved, the row of the store has the id
\* of the group's representative as best_image_id and, as its member list,
\* exactly the ids of the other members: each once, none missing, and never
\* the id of the representative.
C18_StoredGroupListsTheOthers ==
    run.kind # "none" =>
        \A k \in DOMAIN groups :
            LET row == dbGroups[savedAs[k]]
                listed == PyEval(row.image_ids)
            IN  /\ row.best_image_id = images[Representative(k)].id
                /\ Range(listed) = IdsOf(Members(k) \ {Representative(k)})
                /\ Len(listed) = Len(groups[k]) - 1
                /\ row.best_image_id \notin Range(listed)

C18_Witness ==
    /\ runs = <<"exact", "graph">>
    /\ Len(dbGroups) = 2
    /\ Len(groups) = 1
    /\ Len(groups[1]) = 3
    /\ dbGroups[1].best_image_id # dbGroups[2].best_image_id

\* The hash of p is empty or the hash of no other image.
UnsharedHash(imgs, p) ==
    \/ imgs[p].hash = EmptyHash
    \/ \A q \in Positions(imgs) : q # p => imgs[q].hash # imgs[p].hash

\* The flag and the group reference of p are the same before and after the
\* step, in memory and in the store.
FlagsUnchanged(p) ==
    /\ images'[p].is_duplicate = images[p].is_duplicate
    /\ images'[p].duplicate_group = images[p].duplicate_group
    /\ dbImages'[images[p].id].is_duplicate = dbImages[images[p].id].is_duplicate
    /\ dbImages'[images[p].id].duplicate_group = dbImages[images[p].id].duplicate_group

\* C19: a run of the exact-match resolver leaves the duplicate flag and the
\* group reference of every image whose hash is empty or shared with no other
\* image as they were, in memory and in the store; the image is in no group of
\* the run and is in the returned list.
C19_ExactPassesOverUnshared ==
    [][runs' = Append(runs, "exact") =>
          \A p \in Positions(images) :
              UnsharedHash(images, p) =>
                  /\ FlagsUnchanged(p)
                  /\ \A k \in DOMAIN groups' : p \notin Range(groups'[k])
                  /\ p \in Range(kept')
      ]_vars

C19_Witness ==
    /\ runs = <<"graph", "exact">>
    /\ Len(groups) = 1
    /\ \E p \in Positions(images) :
          /\ images[p].hash # EmptyHash
          /\ UnsharedHash(images, p)
          /\ images[p].is_duplicate
          /\ p \in Range(kept)
          /\ p \notin Members(1)

\* Two images of imgs both have a hash and the hashes are within the threshold.
LinkedIn(imgs, threshold, p, q) ==
    /\ p # q
    /\ imgs[p].hash # EmptyHash
    /\ imgs[q].hash # EmptyHash
    /\ Hamming(imgs[p].hash, imgs[q].hash) <= threshold

\* C20: a run of the graph resolver completes also when images have no hash,
\* their backfill having failed: such an image has no edge and is in no group;
\* every image linked to no other image keeps its duplicate flag and group
\* reference, in memory and in the store; and the images that are linked are
\* grouped together.
C20_GraphPassesOverUnhashed ==
    [][runs' = Append(runs, "graph") =>
          /\ run'.kind = "graph"
          /\ stats'.graph_nodes = Len(images)
          /\ \A p \in Positions(images) :
                images'[p].hash = EmptyHash =>
                    /\ \A e \in graph'.edges : images[p].id \notin {e.u, e.v}
                    /\ \A k \in DOMAIN groups' : p \notin Range(groups'[k])
          /\ \A p \in Positions(images) :
                (\A q \in Positions(images) : ~LinkedIn(images', run'.threshold, p, q)) =>
                    /\ FlagsUnchanged(p)
                    /\ \A k \in DOMAIN groups' : p \notin Range(groups'[k])
          /\ \A p, q \in Positions(images) :
                LinkedIn(images', run'.threshold, p, q) =>
                    \E k \in DOMAIN groups' : {p, q} \subseteq Range(groups'[k])
      ]_vars

C20_Witness ==
    /\ run.kind = "graph"
    /\ Len(images) = 3
    /\ Len(groups) = 1
    /\ Len(groups[1]) = 2
    /\ \E p \in Positions(images) :
          /\ ~files[p].readable
          /\ images[p].hash = EmptyHash
          /\ ~images[p].is_duplicate
          /\ images[p].duplicate_group = None

----------------------------------------------------------------------------
\* Properties of the statistics and of the tie-break of the resolvers

\* The connected components of two or more images, and the images in them.
LargeComponents == {Component(p) : p \in {q \in Positions(images) :
                                             Cardinality(Component(q)) >= 2}}
InLargeComponent == UNION LargeComponents

\* C21: the graph resolver takes every image of the list as a node, flagged
\* duplicate or not, and reports total_images = graph_nodes = the number of
\* images, duplicate_groups = the number of components of two or more,
\* duplicates_marked = the sum over them of (size - 1), and images_kept =
\* total_images - duplicates_marked.
C21_GraphStatistics ==
    run.kind = "graph" =>
        /\ stats.total_images = Len(images)
        /\ stats.graph_nodes = Len(images)
        /\ Range(graph.nodes) = IdsOf(Positions(images))
        /\ stats.duplicate_groups = Cardinality(LargeComponents)
        /\ stats.duplicates_marked =
              Cardinality(InLargeComponent) - Cardinality(LargeComponents)
        /\ stats.images_kept = stats.total_images - stats.duplicates_marked

C21_Witness ==
    /\ runs = <<"exact", "graph">>
    /\ Len(dbGroups) = 2
    /\ stats.duplicate_groups = 1
    /\ stats.duplicates_marked = 2
    /\ stats.images_kept = 1
    /\ \E p \in Positions(images) :
          /\ images[p].id \in StoredMembers(1)
          /\ p \in Members(1)

\* The images the groups of the last run hold.
InGroups == UNION {Members(k) : k \in DOMAIN groups}

\* C22: process_blur_filtering reports original_images = the number of images,
\* filtered_images = the representatives plus the images in no group,
\* duplicates_removed = the images the run marked duplicate, duplicate_groups =
\* the groups the run created, and returns no image flagged duplicate.
C22_BlurStatistics ==
    run.kind = "exact" =>
        /\ stats.original_images = Len(images)
        /\ stats.filtered_images =
              Len(groups) + Cardinality(Positions(images) \ InGroups)
        /\ stats.duplicates_removed = Cardinality(InGroups) - Len(groups)
        /\ stats.duplicates_removed = stats.original_images - stats.filtered_images
        /\ stats.duplicate_groups = Len(groups)
        /\ \A k \in DOMAIN kept : ~images[kept[k]].is_duplicate

\* C26: when members of a component tie for the highest quality score, the
\* representative of the graph resolver is the tied member that is first in
\* the input list, in whatever order the component is enumerated.
C26_GraphTieBreakByInputOrder ==
    run.kind = "graph" =>
        \A k \in DOMAIN groups :
            \A p \in Members(k) :
                images[p].blur_score = images[Representative(k)].blur_score
                    => Representative(k) <= p

----------------------------------------------------------------------------
\* Properties of the merge loop

\* The single-linkage distance of two member lists, from the images.
GapBetween(members1, members2) ==
    MinOf({combined_distance(images[p], images[q]) :
              p \in Range(members1), q \in Range(members2)})

\* The step merges cluster j into cluster i.
Merges(i, j) ==
    /\ i < j
    /\ Len(hc'.clusters) = Len(hc.clusters) - 1
    /\ hc'.clusters[i].members = hc.clusters[i].members \o hc.clusters[j].members

IsMerge == hc.pc = "loop" /\ hc'.clusters # hc.clusters
Returns == hc.pc # "done" /\ hc'.pc = "done"

\* C24: with a maximum cluster count k, a merge happens only while there are
\* more than k clusters and only when the smallest single-linkage distance is
\* within the threshold, and the result has at least min(k, n) clusters.
C24_MaxClustersStopsMerging ==
    [][/\ IsMerge =>
            /\ (hc.max_clusters # None /\ hc.max_clusters >= 1)
                  => Len(hc.clusters) > hc.max_clusters
            /\ \A i, j \in DOMAIN hc.clusters :
                  Merges(i, j) =>
                      /\ GapBetween(hc.clusters[i].members, hc.clusters[j].members)
                            <= hc.threshold
                      /\ \A a, b \in DOMAIN hc.clusters :
                            a < b =>
                                GapBetween(hc.clusters[i].members, hc.clusters[j].members)
                                   <= GapBetween(hc.clusters[a].members,
                                                 hc.clusters[b].members)
       /\ (Returns /\ hc'.max_clusters # None) =>
             Len(hc'.result) >= Min2(hc'.max_clusters, Len(images))
      ]_vars

C24_Witness ==
    /\ hc.pc = "done"
    /\ hc.max_clusters = MaxClusterLimit
    /\ Len(images) = 3
    /\ Len(hc.result) = MaxClusterLimit
    /\ Len(hc.result[1].members) = 2
    /\ GapBetween(hc.result[1].members, hc.result[2].members) <= hc.threshold

\* Two images of S are joined by a chain of images of S in which neighbours
\* are within the threshold.
ChainIn(S, threshold, p, q) ==
    \E m \in 1..Cardinality(S) :
        \E path \in [1..m -> S] :
            /\ path[1] = p
            /\ path[m] = q
            /\ \A i \in 1..(m - 1) :
                  combined_distance(images[path[i]], images[path[i + 1]]) <= threshold

\* C25: every merge joins two clusters whose single-linkage distance is at most
\* the threshold, and in every returned cluster any two members are joined by
\* a chain of members with consecutive combined distances within the threshold.
C25_NoMergeAcrossGap ==
    [][/\ IsMerge =>
            \E i, j \in DOMAIN hc.clusters :
                /\ Merges(i, j)
                /\ GapBetween(hc.clusters[i].members, hc.clusters[j].members)
                      <= hc.threshold
       /\ Returns =>
            \A k \in DOMAIN hc'.result :
                \A p, q \in Range(hc'.result[k].members) :
                    ChainIn(Range(hc'.result[k].members), hc'.threshold, p, q)
      ]_vars

C25_Witness ==
    /\ hc.pc = "done"
    /\ hc.mode = "hierarchical"
    /\ Len(images) = 3
    /\ Len(hc.result) = 1
    /\ \E p, q \in Positions(images) :
          combined_distance(images[p], images[q]) > hc.threshold

\* C27: every iteration of the loop merges two clusters, which leaves one
\* cluster less, or leaves the loop; there are never fewer than one or more
\* than n clusters, and the loop is left.
C27_ClusteringTerminates ==
    /\ [][hc.pc = "loop" =>
             \/ hc'.pc = "done"
             \/ /\ hc'.pc = "loop"
                /\ Len(hc'.clusters) = Len(hc.clusters) - 1
                /\ Len(hc'.clusters) >= 1
                /\ Len(hc.clusters) <= Len(images)]_vars
    /\ (hc.pc = "loop") ~> (hc.pc = "done")

C27_Witness ==
    /\ hc.pc = "done"
    /\ hc.mode = "hierarchical"
    /\ hc.threshold > 0
    /\ Len(images) = 3
    /\ Len(hc.result) = 1
    /\ Len(hc.result[1].members) = 3

\* Properties of cluster_images

\* The call of cluster_images that is running or has returned was made with
\* the thresholds (d, t).
CalledWith(d, t) ==
    hc.mode = "cluster_images" /\ hc.threshold = CombinedThreshold(d, t)

\* C28: two images that are proximate under are_images_proximate with (d, t)
\* are in the same cluster of cluster_images called with the same (d, t).
C28_ProximateSameCluster ==
    hc.pc = "done" =>
        \A d \in DistanceThresholdsKm, t \in TimeThresholdsHours :
            CalledWith(d, t) =>
                \A p, q \in Positions(images) :
                    are_images_proximate(images[p], images[q], d, t)
                        => SameCluster(p, q)

\* C29: cluster_images leaves an image that lacks GPS alone in its cluster,
\* whatever the two thresholds: its combined distance to every other image is
\* at least the spatial weight and the combined threshold is at most a half.
C29_NoGpsEndsAlone ==
    /\ \A d \in DistanceThresholdsKm, t \in TimeThresholdsHours :
          2 * CombinedThreshold(d, t) <= DistScale
    /\ (hc.pc = "done" /\ hc.mode = "cluster_images") =>
          \A p \in Positions(images) :
              ~HasGps(p) =>
                  /\ \A q \in Positions(images) \ {p} :
                        /\ combined_distance(images[p], images[q]) >= GpsWeight * GpsCap
                        /\ GpsWeight * GpsCap > hc.threshold
                        /\ ~SameCluster(p, q)
                  /\ \E k \in DOMAIN hc.result : hc.result[k].members = <<p>>

C29_Witness ==
    /\ hc.pc = "done"
    /\ hc.mode = "cluster_images"
    /\ hc.threshold = CombinedThreshold(MaxDistanceKm, MaxTimeHours)
    /\ Len(images) = 3
    /\ Len(hc.result) = 2
    /\ \E p, q \in Positions(images) :
          /\ ~HasGps(p)
          /\ HasGps(q)
          /\ images[p].timestamp = images[q].timestamp
          /\ images[p].timestamp # None

\* Properties of the store over time

\* C30: the store never loses an image record and never clears a duplicate
\* flag: every stored row is still there after every step, under the same id,
\* and a row that is marked duplicate stays marked duplicate.
C30_StoreKeepsImagesAndFlags ==
    [][/\ Len(dbImages') >= Len(dbImages)
       /\ \A r \in DOMAIN dbImages :
             /\ r \in DOMAIN dbImages'
             /\ dbImages'[r].id = dbImages[r].id
             /\ dbImages[r].is_duplicate => dbImages'[r].is_duplicate
      ]_vars

C30_Witness ==
    /\ runs = <<"exact", "graph">>
    /\ Len(dbClusters) > Len(images)
    /\ Len(images) = 2
    /\ \A r \in DOMAIN dbImages : dbImages[r].is_duplicate
    /\ \E p \in Positions(images) : ~images[p].is_duplicate

\* Properties of a run in which the store raises

\* The writes of each run, played to the end, give what the run gives when
\* nothing raises.
WritesAreTheRun ==
    /\ pc = "saved" =>
          \A d \in DistanceThresholdsKm, t \in TimeThresholdsHours :
              LET clusters == cluster_images(images, d, t)
                  st == save_clusters_to_database(clusters, images, dbImages, dbClusters)
                  end == Play(StartOf(images), ClusterSteps(clusters, images, dbClusters))
              IN  /\ end.dbImages = st.dbImages
                  /\ end.dbClusters = st.dbClusters
                  /\ end.images = images
    /\ pc = "ready" =>
          /\ LET imgs == calculate_blur_scores(images, files)
                 st == filter_blurred_duplicates(imgs, dbImages, dbGroups)
                 end == Play(StartOf(imgs), ExactSteps(imgs, dbImages, dbGroups))
             IN  /\ end.images = st.images
                 /\ end.dbImages = SaveBlurScores(st.dbImages, st.images, st.filtered)
                 /\ end.dbGroups = st.dbGroups
          /\ \A similarity_threshold \in Thresholds,
                iteration \in Enumerations({images[p].id : p \in Positions(images)}) :
                LET imgs == EnsureHashes(images, files)
                    G == build_similarity_graph(imgs, similarity_threshold)
                    duplicate_groups == find_connected_duplicate_groups(G, imgs, iteration)
                    st == MarkGraphGroups([images |-> imgs, dbImages |-> dbImages,
                                           dbGroups |-> dbGroups, savedAs |-> <<>>,
                                           duplicates_marked |-> 0],
                                          duplicate_groups, 1)
                    end == Play(StartOf(imgs), GraphSteps(imgs, duplicate_groups))
                IN  /\ end.images = st.images
                    /\ end.dbImages = st.dbImages
                    /\ end.dbGroups = st.dbGroups

\* The store shows the call w, one of those that returned before the failure.
Visible(w) ==
    CASE w.op = "mark_as_duplicate" ->
            /\ dbImages[w.image_id].is_duplicate
            /\ dbImages[w.image_id].duplicate_group = w.duplicate_group
      [] w.op = "save_duplicate_group" ->
            \E r \in DOMAIN dbGroups :
                /\ r > Len(out.before.dbGroups)
                /\ dbGroups[r].best_image_id = w.group.best_image_id
                /\ dbGroups[r].image_ids = w.group.image_ids
      [] w.op = "update_image_blur_score" ->
            dbImages[w.image_id].blur_score = w.blur_score
      [] w.op = "add_cluster" ->
            \E r \in DOMAIN dbClusters :
                /\ r > Len(out.before.dbClusters)
                /\ dbClusters[r] = [w.cluster EXCEPT !.id = r]
      [] w.op = "update_image_cluster" ->
            dbImages[w.image_id].cluster_id = w.cluster_id

CountOf(calls, op) == Cardinality({i \in DOMAIN calls : calls[i].op = op})

\* The rows of images that a returned call names.
Written(calls) ==
    {calls[i].image_id :
        i \in {j \in DOMAIN calls :
                  calls[j].op \in {"mark_as_duplicate", "update_image_blur_score",
                                   "update_image_cluster"}}}

\* C23: when a call of the store raises during a clustering or a resolver
\* run, the run ends there: every call that returned before is in the store,
\* nothing else of the run is (the call that raised and the calls after it
\* wrote nothing, and no row written before the run is undone), and no step
\* follows the failure, so nothing is called again and no later stage writes.
C23_FailureKeepsCompletedWrites ==
    /\ [](WritesAreTheRun)
    /\ [](pc = "failed" =>
            /\ \A i \in DOMAIN out.returned : Visible(out.returned[i])
            /\ Len(dbImages) = Len(out.before.dbImages)
            /\ \A r \in DOMAIN dbImages :
                  r \notin Written(out.returned) => dbImages[r] = out.before.dbImages[r]
            /\ Len(dbGroups) = Len(out.before.dbGroups)
                                  + CountOf(out.returned, "save_duplicate_group")
            /\ SubSeq(dbGroups, 1, Len(out.before.dbGroups)) = out.before.dbGroups
            /\ Len(dbClusters) = Len(out.before.dbClusters)
                                    + CountOf(out.returned, "add_cluster")
            /\ SubSeq(dbClusters, 1, Len(out.before.dbClusters)) = out.before.dbClusters)
    /\ [][pc = "failed" => /\ pc' = "failed"
                           /\ UNCHANGED <<dbImages, dbGroups, dbClusters>>]_vars

C23_Witness ==
    /\ pc = "failed"
    /\ out.call = "process_blur_filtering"
    /\ out.raised.op = "save_duplicate_group"
    /\ Len(out.returned) = 2
    /\ dbGroups = <<>>
    /\ dbClusters # <<>>
    /\ \E r \in DOMAIN dbImages :
          dbImages[r].is_duplicate /\ ~out.before.dbImages[r].is_duplicate

====
